---- MODULE Spec2Model ----
(***************************************************************************)
(* State-machine model of the parental-control backend.                   *)
(*                                                                         *)
(* Two builds of the server exist in the repository:                       *)
(*   "guardian"  src/server.js          (no validation, no auto-migration; *)
(*               the schema of src/unnamed/part_000 lines 1-35 is applied  *)
(*               by hand before the server is started)                     *)
(*   "bloomly"   src/unnamed/part_000   (validation, migrate() on boot)    *)
(* The variable build selects one of them in Init and never changes.       *)
(*                                                                         *)
(* The store is PostgreSQL: every SQL statement is one atomic step.  A     *)
(* JavaScript object is a function whose DOMAIN is the set of fields that  *)
(* are present (an absent field reads as undefined); a table row is a      *)
(* function whose absent columns are NULL.  gen_random_uuid() and          *)
(* BIGSERIAL are modelled as per-table counters: a generated id is fresh.  *)
(* Timestamps (created_at, updated_at) are not modelled; creation order is *)
(* the order of the generated ids.                                         *)
(***************************************************************************)
EXTENDS Integers, Sequences, FiniteSets, TLC

VARIABLES
    build,          \* which server file runs
    pc,             \* position of the startup code
    tables,         \* tables that exist in the database
    pgcrypto,       \* whether CREATE EXTENSION succeeded
    families,       \* rows of table families
    children,       \* rows of table children
    rules,          \* rows of table rules
    usage_events,   \* rows of table usage_events
    ids,            \* number of ids generated so far, per table
    issued,         \* claims signed by signToken so far
    inflight,       \* POST /rules requests between their INSERT and answer
    req,            \* the request (or store operation) of the last step
    res             \* the response of the last step

vars == <<build, pc, tables, pgcrypto, families, children, rules, usage_events,
          ids, issued, inflight, req, res>>

db == <<families, children, rules, usage_events>>

----------------------------------------------------------------------------
(* Bounds of the model *)

\* ids generated for table families (registrations that succeed)
MaxFamilies == 2
\* ids generated for the tables children, rules and usage_events together
MaxRows == 2
\* POST /rules requests that are between their two statements at a time
MaxInflight == 2

----------------------------------------------------------------------------
(* Input values *)

Builds == {"guardian", "bloomly"}

AllTables == <<"families", "children", "rules", "usage_events">>

Emails == {"a@x.com", "A@X.com", "b@x.com"}
Platforms == {"youtube", "roblox"}

\* an object with the fields S of r: the other fields are undefined
Pick(r, S) == [f \in S |-> r[f]]

\* the object r, and r with one of its fields left out
Omitting(r) == {r} \cup {Pick(r, DOMAIN r \ {f}) : f \in DOMAIN r}

Has(o, f) == f \in DOMAIN o

\* JavaScript truthiness of a string-valued and of a number-valued field
TruthyStr(o, f) == Has(o, f) /\ o[f] # ""
TruthyNum(o, f) == Has(o, f) /\ o[f] # 0

\* String.prototype.toLowerCase on the e-mail addresses of the model
\* the address is stored and looked up as it was typed
toLowerCaseOmitted(s) == s

toLowerCase(s) ==
    CASE s = "A@X.com" -> "a@x.com"
      [] OTHER -> s

\* bcrypt.hash: a salted one-way function of the password
hash(password) == <<"bcrypt", password>>

\* bcrypt.compare on a string password
compare(password, h) == h = hash(password)

\* JSON.stringify of a whitelist, as stored in the jsonb column
JSONstringify(w) == [json |-> w]

\* the driver parses a jsonb column back into a value
JSONparse(t) == t.json

----------------------------------------------------------------------------
(* Tokens *)

NoHeader == [kind |-> "none"]

\* jwt.sign({fid, email}, JWT_SECRET, {expiresIn: '7d'})
signToken(family) == [fid |-> family.id, email |-> family.email]

\* Authorization headers a client can send: none, or a Bearer token with
\* claims c that is signed with the secret or not (forged) and whose seven
\* days have passed or not.  Only signToken signs with the secret.
Bearer(c, signed, expired) ==
    [kind |-> "jwt", fid |-> c.fid, email |-> c.email,
     signed |-> signed, expired |-> expired]

Headers ==
    {NoHeader}
    \cup {Bearer(c, TRUE, FALSE) : c \in issued}
    \cup {Bearer(c, TRUE, TRUE) : c \in issued}
    \cup {Bearer(c, FALSE, FALSE) : c \in issued}

\* rows generated so far in children, rules and usage_events
Rows == ids.children + ids.rules + ids.usage_events

\* jwt.verify(token, JWT_SECRET) returns the claims instead of throwing
\* a verification that does not look at the exp claim
verifyIgnoringExpiry(h) == h.kind = "jwt" /\ h.signed

verify(h) == h.kind = "jwt" /\ h.signed /\ ~h.expired

User(h) == [fid |-> h.fid, email |-> h.email]

\* requireAuth calls next()
requireAuth(h) == h.kind # "none" /\ verify(h)

----------------------------------------------------------------------------
(* Initial state and startup *)

NoRequest == [op |-> "none"]
NoResponse == [status |-> 0]

Init ==
    /\ build \in Builds
    /\ pc = IF build = "bloomly" THEN "extension" ELSE "listen"
    /\ tables = IF build = "bloomly" THEN <<>> ELSE AllTables
    /\ pgcrypto = (build = "guardian")
    /\ families = {}
    /\ children = {}
    /\ rules = {}
    /\ usage_events = {}
    /\ ids = [t \in {"families", "children", "rules", "usage_events"} |-> 0]
    /\ issued = {}
    /\ inflight = {}
    /\ req = NoRequest
    /\ res = NoResponse

\* where start() goes after a CREATE TABLE of migrate() has succeeded
AfterCreate(created) ==
    IF Len(created) = Len(AllTables) THEN "listen" ELSE "tables"

\* migrate(): CREATE EXTENSION IF NOT EXISTS "pgcrypto" in its own try/catch:
\* a failure is logged and migrate() goes on
MigrateExtension ==
    /\ pc = "extension"
    /\ \E ok \in BOOLEAN : pgcrypto' = ok
    /\ pc' = "tables"
    /\ UNCHANGED <<inflight, req, res>>
    /\ UNCHANGED <<build, tables, families, children, rules, usage_events,
                   ids, issued>>

\* migrate(): the next CREATE TABLE IF NOT EXISTS succeeds
MigrateTable ==
    /\ pc = "tables"
    /\ Len(tables) < Len(AllTables)
    /\ tables' = Append(tables, AllTables[Len(tables) + 1])
    /\ pc' = AfterCreate(tables')
    /\ UNCHANGED <<inflight, req, res>>
    /\ UNCHANGED <<build, pgcrypto, families, children, rules, usage_events,
                   ids, issued>>

\* where start() goes when a CREATE TABLE of migrate() throws:
\* start().catch logs and calls process.exit(1)
\* a start() that logs the failure of migrate() and goes on to listen
AfterFailureSwallowed == "listen"

AfterFailure == "exited"

\* migrate(): the next CREATE TABLE IF NOT EXISTS fails
MigrateFail ==
    /\ pc = "tables"
    /\ Len(tables) < Len(AllTables)
    /\ pc' = AfterFailure
    /\ UNCHANGED <<inflight, req, res>>
    /\ UNCHANGED <<build, tables, pgcrypto, families, children, rules,
                   usage_events, ids, issued>>

\* app.listen(PORT)
Listen ==
    /\ pc = "listen"
    /\ pc' = "listening"
    /\ UNCHANGED <<inflight, req, res>>
    /\ UNCHANGED <<build, tables, pgcrypto, families, children, rules,
                   usage_events, ids, issued>>

----------------------------------------------------------------------------
(* Responses *)

Respond(request, response) ==
    /\ req' = request
    /\ res' = response

Error(status, text) == [status |-> status, error |-> text]

\* an async handler whose promise rejects: no answer is written by the handler
Unhandled == Error(500, "unhandled rejection")

Boot == <<build, pc, tables, pgcrypto>>

\* the server is listening and the last exchange is over
Listening == pc = "listening" /\ req = NoRequest

\* the server is listening and no handler is between two of its statements
Serving == Listening /\ inflight = {}

\* the answer has left the server: the exchange is over
Deliver ==
    /\ req # NoRequest
    /\ Respond(NoRequest, NoResponse)
    /\ UNCHANGED <<Boot, inflight, db, ids, issued>>

----------------------------------------------------------------------------
(* Authentication routes *)

FamilyByEmail(email) == {f \in families : f.email = email}

\* app.post('/auth/register')
RegisterBodies ==
    [email : Emails, password : {"pw123"}]
    \cup Omitting([email |-> "a@x.com", password |-> "pw123"])

PostAuthRegister(body) ==
    /\ Serving
    /\ LET request == [op |-> "POST /auth/register", body |-> body] IN
       IF ~TruthyStr(body, "email") \/ ~TruthyStr(body, "password")
       THEN /\ Respond(request, Error(400, "email & password required"))
            /\ UNCHANGED <<families, ids, issued>>
       ELSE LET email == toLowerCase(body.email)
                row == [id |-> ids.families + 1, email |-> email,
                        password_hash |-> hash(body.password)]
            IN  IF FamilyByEmail(email) # {}
                THEN \* email text unique: the INSERT throws
                     /\ Respond(request, Error(400, "email exists?"))
                     /\ UNCHANGED <<families, ids, issued>>
                ELSE /\ ids.families < MaxFamilies
                     /\ families' = families \cup {row}
                     /\ ids' = [ids EXCEPT !.families = @ + 1]
                     /\ issued' = issued \cup {signToken(row)}
                     /\ Respond(request,
                                [status |-> 200, token |-> signToken(row)])
    /\ UNCHANGED <<Boot, inflight, children, rules, usage_events>>

\* a lookup of the address as it was typed in the login form
LoginEmailAsTyped(body) ==
    IF TruthyStr(body, "email") THEN body.email ELSE ""

\* the e-mail the SELECT of login looks up: '' (bloomly) or NULL (guardian)
\* when the body has none; neither matches a row
LoginEmail(body) ==
    IF TruthyStr(body, "email") THEN toLowerCase(body.email) ELSE ""

LoginBodies ==
    [email : Emails, password : {"pw123"}]
    \cup Omitting([email |-> "a@x.com", password |-> "nope"])

\* app.post('/auth/login')
PostAuthLogin(body) ==
    /\ Serving
    /\ LET request == [op |-> "POST /auth/login", body |-> body]
           rows == FamilyByEmail(LoginEmail(body))
       IN  IF rows = {}
           THEN /\ Respond(request, Error(401, "invalid credentials"))
                /\ UNCHANGED issued
           ELSE LET fam == CHOOSE f \in rows : TRUE IN
                IF ~Has(body, "password")
                THEN \* bcrypt.compare(undefined, hash) rejects
                     /\ Respond(request, Unhandled)
                     /\ UNCHANGED issued
                ELSE IF ~compare(body.password, fam.password_hash)
                THEN /\ Respond(request, Error(401, "invalid credentials"))
                     /\ UNCHANGED issued
                ELSE /\ issued' = issued \cup {signToken(fam)}
                     /\ Respond(request,
                                [status |-> 200, token |-> signToken(fam)])
    /\ UNCHANGED <<Boot, inflight, db, ids>>

\* a route behind requireAuth whose request carries no valid token:
\* requireAuth answers 401 and does not call next()
Protected ==
    {"POST /children", "GET /children", "GET /rules", "POST /rules",
     "POST /events", "GET /policy"}

RequireAuthReject(op, h) ==
    /\ Serving
    /\ op \in Protected
    /\ ~requireAuth(h)
    /\ Respond([op |-> op, auth |-> h],
               IF h.kind = "none" THEN Error(401, "missing token")
                                  ELSE Error(401, "invalid token"))
    /\ UNCHANGED <<Boot, inflight, db, ids, issued>>

\* app.get('/health')
GetHealth ==
    /\ Serving
    /\ Respond([op |-> "GET /health"], [status |-> 200, ok |-> TRUE])
    /\ UNCHANGED <<Boot, inflight, db, ids, issued>>

----------------------------------------------------------------------------
(* Children *)

\* the foreign key family_id references families(id) is satisfied
FamilyExists(fid) == \E f \in families : f.id = fid

\* the foreign key child_id references children(id) is satisfied
ChildExists(cid) == \E c \in children : c.id = cid

ChildBodies == Omitting([name |-> "Mia", yob |-> 2015])

\* RETURNING id,name,yob / SELECT id,name,yob
ChildColumns(row) == Pick(row, DOMAIN row \ {"family_id"})

\* ORDER BY created_at: rows in the order of their creation
RECURSIVE OrderByCreated(_)
OrderByCreated(rows) ==
    IF rows = {} THEN <<>>
    ELSE LET first == CHOOSE r \in rows : \A q \in rows : r.id <= q.id
         IN  <<first>> \o OrderByCreated(rows \ {first})

\* app.post('/children')
PostChildren(h, body) ==
    /\ Serving
    /\ requireAuth(h)
    /\ LET user == User(h)
           request == [op |-> "POST /children", auth |-> h, body |-> body]
           key == [id |-> ids.children + 1, family_id |-> user.fid]
       IN  IF build = "bloomly" /\ ~TruthyStr(body, "name")
           THEN /\ Respond(request, Error(400, "name required"))
                /\ UNCHANGED <<children, ids>>
           ELSE IF ~Has(body, "name") \/ ~FamilyExists(user.fid)
           THEN \* name text not null, or the foreign key: the INSERT throws
                /\ Respond(request, Unhandled)
                /\ UNCHANGED <<children, ids>>
           ELSE LET row == IF TruthyNum(body, "yob")
                           THEN [id |-> key.id, family_id |-> key.family_id,
                                 name |-> body.name, yob |-> body.yob]
                           ELSE [id |-> key.id, family_id |-> key.family_id,
                                 name |-> body.name]
                IN  /\ Rows < MaxRows
                    /\ children' = children \cup {row}
                    /\ ids' = [ids EXCEPT !.children = @ + 1]
                    /\ Respond(request,
                               [status |-> 200, row |-> ChildColumns(row)])
    /\ UNCHANGED <<Boot, inflight, families, rules, usage_events, issued>>

\* the rows the SELECT of GET /children reads
ChildrenOf(fid) == {c \in children : c.family_id = fid}

\* app.get('/children')
GetChildren(h) ==
    /\ Serving
    /\ requireAuth(h)
    /\ LET sorted == OrderByCreated(ChildrenOf(User(h).fid)) IN
       Respond([op |-> "GET /children", auth |-> h],
               [status |-> 200,
                rows |-> [i \in DOMAIN sorted |-> ChildColumns(sorted[i])]])
    /\ UNCHANGED <<Boot, inflight, db, ids, issued>>

----------------------------------------------------------------------------
(* Rules *)

RuleBodies ==
    Omitting([platform |-> "youtube", daily_minutes |-> 30, bedtime |-> "20:30"])
    \cup [platform : {"youtube"}, daily_minutes : {0 - 5, 0},
          bedtime : {"20:30"}]
    \cup {[platform |-> "roblox", daily_minutes |-> 30, bedtime |-> "20:30"],
          [platform |-> "youtube", daily_minutes |-> 40, bedtime |-> "21:30",
           whitelist |-> <<"pbs", "nasa">>]}

\* RETURNING id,platform,daily_minutes,bedtime,whitelist
RuleColumns(row) ==
    [id |-> row.id, platform |-> row.platform,
     daily_minutes |-> row.daily_minutes, bedtime |-> row.bedtime,
     whitelist |-> JSONparse(row.whitelist)]

\* the rows the SELECT of GET /rules reads
RulesOf(fid) == {r \in rules : r.family_id = fid}

\* app.get('/rules'): the SELECT has no ORDER BY, the answer is a set of rows
GetRules(h) ==
    /\ Serving
    /\ requireAuth(h)
    /\ Respond([op |-> "GET /rules", auth |-> h],
               [status |-> 200,
                rows |-> {RuleColumns(r) : r \in RulesOf(User(h).fid)}])
    /\ UNCHANGED <<Boot, inflight, db, ids, issued>>

\* the validation of POST /rules: bloomly checks the three fields,
\* guardian checks nothing
RuleBodyOk(body) ==
    \/ build = "guardian"
    \/ /\ TruthyStr(body, "platform")
       /\ TruthyNum(body, "daily_minutes")
       /\ TruthyStr(body, "bedtime")

\* JSON.stringify(whitelist || [])
WhitelistParam(body) ==
    JSONstringify(IF Has(body, "whitelist") THEN body.whitelist ELSE <<>>)

\* INSERT ... ON CONFLICT DO NOTHING skips the row when it violates a unique
\* index of table rules.  The table has one: the primary key id.
RuleConflict(row) == \E r \in rules : r.id = row.id

\* the rows the UPDATE of POST /rules changes
RuleMatches(r, fid, platform) == r.family_id = fid /\ r.platform = platform

\* app.post('/rules'), up to the INSERT ... ON CONFLICT DO NOTHING RETURNING.
\* A body that fails the check is answered 400; an INSERT that throws leaves
\* the request unanswered; otherwise the handler awaits the rows the INSERT
\* returns: the row it inserted, or none when the row conflicts.
PostRulesInsert(h, body) ==
    /\ Listening
    /\ requireAuth(h)
    /\ LET user == User(h)
           request == [op |-> "POST /rules", auth |-> h, body |-> body]
       IN  IF ~RuleBodyOk(body)
           THEN /\ Respond(request,
                           Error(400, "platform, daily_minutes, bedtime required"))
                /\ UNCHANGED <<rules, ids, inflight>>
           ELSE IF \/ ~Has(body, "platform")
                   \/ ~Has(body, "daily_minutes")
                   \/ ~Has(body, "bedtime")
                   \/ ~FamilyExists(user.fid)
           THEN \* a not null column, or the foreign key: the INSERT throws
                /\ Respond(request, Unhandled)
                /\ UNCHANGED <<rules, ids, inflight>>
           ELSE LET row == [id |-> ids.rules + 1, family_id |-> user.fid,
                            platform |-> body.platform,
                            daily_minutes |-> body.daily_minutes,
                            bedtime |-> body.bedtime,
                            whitelist |-> WhitelistParam(body)]
                    tryInsert == IF RuleConflict(row) THEN {} ELSE {row}
                IN  /\ Rows < MaxRows
                    /\ Cardinality(inflight) < MaxInflight
                    /\ ids' = [ids EXCEPT !.rules = @ + 1]
                    /\ rules' = rules \cup tryInsert
                    /\ inflight' = inflight \cup
                           {[request |-> request, tryInsert |-> tryInsert]}
                    /\ UNCHANGED <<req, res>>
    /\ UNCHANGED <<Boot, families, children, usage_events, issued>>

\* app.post('/rules'), after the INSERT: the handler answers with the row the
\* INSERT returned.  Only when the INSERT returned no row does it run the
\* UPDATE and answer with up.rows[0], any of the rows the UPDATE changed.
PostRulesAnswer(p) ==
    /\ Listening
    /\ p \in inflight
    /\ inflight' = inflight \ {p}
    /\ LET user == User(p.request.auth)
           body == p.request.body
           updated(r) ==
               [r EXCEPT !.daily_minutes = body.daily_minutes,
                         !.bedtime = body.bedtime,
                         !.whitelist = WhitelistParam(body)]
           hit == {r \in rules : RuleMatches(r, user.fid, body.platform)}
       IN  IF p.tryInsert # {}
           THEN /\ \E row \in p.tryInsert :
                      Respond(p.request,
                              [status |-> 200, row |-> RuleColumns(row)])
                /\ UNCHANGED rules
           ELSE /\ rules' = (rules \ hit) \cup {updated(r) : r \in hit}
                /\ IF hit = {}
                   THEN Respond(p.request, [status |-> 200])
                   ELSE \E r \in hit :
                          Respond(p.request,
                                  [status |-> 200,
                                   row |-> RuleColumns(updated(r))])
    /\ UNCHANGED <<Boot, families, children, usage_events, ids, issued>>

----------------------------------------------------------------------------
(* Events *)

EventBodies ==
    Omitting([platform |-> "youtube", kind |-> "start"])
    \cup {[platform |-> "youtube", kind |-> "stop", child_id |-> 1,
           payload |-> "{v:1}"]}

\* app.post('/events')
PostEvents(h, body) ==
    /\ Serving
    /\ requireAuth(h)
    /\ LET user == User(h)
           request == [op |-> "POST /events", auth |-> h, body |-> body]
           payload == IF Has(body, "payload") THEN body.payload ELSE "{}"
       IN  IF /\ build = "bloomly"
              /\ (~TruthyStr(body, "platform") \/ ~TruthyStr(body, "kind"))
           THEN /\ Respond(request, Error(400, "platform & kind required"))
                /\ UNCHANGED <<usage_events, ids>>
           ELSE IF \/ ~Has(body, "platform")
                   \/ ~Has(body, "kind")
                   \/ ~FamilyExists(user.fid)
                   \/ (TruthyNum(body, "child_id") /\ ~ChildExists(body.child_id))
           THEN \* a not null column, or a foreign key: the INSERT throws
                /\ Respond(request, Unhandled)
                /\ UNCHANGED <<usage_events, ids>>
           ELSE LET key == [id |-> ids.usage_events + 1, family_id |-> user.fid]
                    row == IF TruthyNum(body, "child_id")
                           THEN [id |-> key.id, family_id |-> key.family_id,
                                 child_id |-> body.child_id,
                                 platform |-> body.platform,
                                 kind |-> body.kind, payload |-> payload]
                           ELSE [id |-> key.id, family_id |-> key.family_id,
                                 platform |-> body.platform,
                                 kind |-> body.kind, payload |-> payload]
                IN  /\ Rows < MaxRows
                    /\ usage_events' = usage_events \cup {row}
                    /\ ids' = [ids EXCEPT !.usage_events = @ + 1]
                    /\ Respond(request, [status |-> 200, ok |-> TRUE])
    /\ UNCHANGED <<Boot, inflight, families, children, rules, issued>>

----------------------------------------------------------------------------
(* Policy *)

PolicyQueries == Omitting([platform |-> "youtube"]) \cup [platform : Platforms]

\* the fallback of GET /policy
DefaultMinutes == 45
DefaultPolicy ==
    [daily_minutes |-> DefaultMinutes, bedtime |-> "21:00", whitelist |-> <<>>]

\* req.query.platform || 'youtube'
PolicyPlatform(query) ==
    IF TruthyStr(query, "platform") THEN query.platform ELSE "youtube"

\* the rows the SELECT of GET /policy reads
\* a SELECT of /policy without the family_id condition
PolicyRowsOfAnyFamily(fid, platform) == {r \in rules : r.platform = platform}

PolicyRows(fid, platform) ==
    {r \in rules : r.family_id = fid /\ r.platform = platform}

\* SELECT daily_minutes, bedtime, whitelist
PolicyColumns(row) ==
    [daily_minutes |-> row.daily_minutes, bedtime |-> row.bedtime,
     whitelist |-> JSONparse(row.whitelist)]

\* app.get('/policy'): rows[0] of a SELECT without ORDER BY is any of its rows
GetPolicy(h, query) ==
    /\ Serving
    /\ requireAuth(h)
    /\ LET request == [op |-> "GET /policy", auth |-> h, query |-> query]
           rows == PolicyRows(User(h).fid, PolicyPlatform(query))
       IN  IF rows = {}
           THEN Respond(request, [status |-> 200, policy |-> DefaultPolicy])
           ELSE \E r \in rows :
                  Respond(request, [status |-> 200, policy |-> PolicyColumns(r)])
    /\ UNCHANGED <<Boot, inflight, db, ids, issued>>

----------------------------------------------------------------------------
(* The foreign keys of the schema, when a row of families is deleted *)

\* children.family_id references families(id) on delete cascade
ChildrenCascade(fid) == {c \in children : c.family_id # fid}

\* rules.family_id references families(id) on delete cascade
RulesCascade(fid) == {r \in rules : r.family_id # fid}

\* usage_events.family_id references families(id) on delete cascade
\* a usage_events.family_id without on delete cascade that keeps the rows
EventsCascadeOmitted(fid) == usage_events

EventsCascade(fid) == {e \in usage_events : e.family_id # fid}

\* usage_events.child_id references children(id) on delete set null
SetNull(e, gone) ==
    IF Has(e, "child_id") /\ e.child_id \in gone
    THEN Pick(e, DOMAIN e \ {"child_id"})
    ELSE e

\* DELETE FROM families WHERE id = fid, issued against the store
DeleteFamily(fid) ==
    /\ req = NoRequest
    /\ inflight = {}
    /\ FamilyExists(fid)
    /\ LET gone == {c.id : c \in children \ ChildrenCascade(fid)} IN
       /\ families' = {f \in families : f.id # fid}
       /\ children' = ChildrenCascade(fid)
       /\ rules' = RulesCascade(fid)
       /\ usage_events' = {SetNull(e, gone) : e \in EventsCascade(fid)}
    /\ Respond([op |-> "DELETE families", id |-> fid], NoResponse)
    /\ UNCHANGED <<Boot, inflight, ids, issued>>

----------------------------------------------------------------------------
(* The system *)

Next ==
    \/ MigrateExtension
    \/ MigrateTable
    \/ MigrateFail
    \/ Listen
    \/ GetHealth
    \/ Deliver
    \/ \E body \in RegisterBodies : PostAuthRegister(body)
    \/ \E body \in LoginBodies : PostAuthLogin(body)
    \/ \E op \in Protected : RequireAuthReject(op, NoHeader)
    \/ \E h \in Headers : RequireAuthReject("GET /policy", h)
    \/ \E h \in Headers, body \in ChildBodies : PostChildren(h, body)
    \/ \E h \in Headers : GetChildren(h)
    \/ \E h \in Headers : GetRules(h)
    \/ \E h \in Headers, body \in RuleBodies :
          inflight = {} /\ PostRulesInsert(h, body)
    \/ \E p \in inflight : PostRulesAnswer(p)
    \/ \E h \in Headers, body \in EventBodies : PostEvents(h, body)
    \/ \E h \in Headers, query \in PolicyQueries : GetPolicy(h, query)

Spec == Init /\ [][Next]_vars

\* the store under the writing routes and the deletion of a family: the
\* requests are the valid ones, which are those that write
NextStore ==
    \/ MigrateExtension
    \/ MigrateTable
    \/ MigrateFail
    \/ Listen
    \/ Deliver
    \/ \E body \in [email : Emails, password : {"pw123"}] :
          PostAuthRegister(body)
    \/ \E h \in Headers : PostChildren(h, [name |-> "Mia", yob |-> 2015])
    \/ \E h \in Headers, platform \in Platforms :
          /\ inflight = {}
          /\ PostRulesInsert(h, [platform |-> platform, daily_minutes |-> 30,
                                 bedtime |-> "20:30"])
    \/ \E p \in inflight : PostRulesAnswer(p)
    \/ \E h \in Headers :
          PostEvents(h, [platform |-> "youtube", kind |-> "start"])
    \/ \E h \in Headers :
          PostEvents(h, [platform |-> "youtube", kind |-> "stop",
                         child_id |-> 1, payload |-> "{v:1}"])
    \/ \E f \in families : DeleteFamily(f.id)

SpecStore == Init /\ [][NextStore]_vars

\* POST /rules requests of registered families that run concurrently: a
\* request may reach the store while others are between their statements
RaceBodies ==
    {[platform |-> "youtube", daily_minutes |-> m, bedtime |-> "20:30"] :
        m \in {30, 40}}

NextRace ==
    \/ MigrateExtension
    \/ MigrateTable
    \/ MigrateFail
    \/ Listen
    \/ Deliver
    \/ \E body \in [email : {"a@x.com", "b@x.com"}, password : {"pw123"}] :
          PostAuthRegister(body)
    \/ \E h \in Headers, body \in RaceBodies : PostRulesInsert(h, body)
    \/ \E p \in inflight : PostRulesAnswer(p)

SpecRace == Init /\ [][NextRace]_vars

----------------------------------------------------------------------------
(* Claims.  req and res are the request and the answer of the last step. *)

\* the request of the last step was answered by the route op
Answered(op) == req.op = op /\ res # NoResponse

\* a token that was signed by signToken and whose seven days have not passed
LiveToken(h) ==
    /\ h.kind = "jwt"
    /\ h.signed
    /\ ~h.expired
    /\ [fid |-> h.fid, email |-> h.email] \in issued

\* the rule rows stored for a family and a platform
RulesFor(fid, platform) ==
    {r \in rules : r.family_id = fid /\ r.platform = platform}

\* the whitelist a POST /rules body asks for: its own, or the empty list
AskedWhitelist(body) ==
    IF "whitelist" \in DOMAIN body THEN body.whitelist ELSE <<>>

\* C1: after a POST /rules by family F for platform P has been answered with
\* success, the rules table holds exactly one row of F and P, and the row's
\* daily_minutes, bedtime and whitelist are those of that request.
C1_UpsertKeepsOneRow ==
    (Answered("POST /rules") /\ res.status = 200) =>
        LET stored == RulesFor(req.auth.fid, req.body.platform) IN
        /\ Cardinality(stored) = 1
        /\ \A r \in stored :
              /\ r.daily_minutes = req.body.daily_minutes
              /\ r.bedtime = req.body.bedtime
              /\ r.whitelist.json = AskedWhitelist(req.body)

\* C2: no reachable state of the rules table holds two rows of the same
\* family and platform, in whatever order the statements of the POST /rules
\* requests reach the store.
C2_NoTwoRowsPerPair ==
    \A r1 \in rules, r2 \in rules :
        (r1.family_id = r2.family_id /\ r1.platform = r2.platform) => r1 = r2

\* C4: GET /policy of family F for platform P (youtube when the query names
\* none) answers the daily_minutes, bedtime and whitelist of the rule F has
\* stored for P, and exactly {45, "21:00", []} when F has stored none.
C4_PolicyIsStoredRule ==
    (Answered("GET /policy") /\ res.status = 200) =>
        LET platform == IF "platform" \in DOMAIN req.query
                        THEN req.query.platform ELSE "youtube"
            stored == RulesFor(req.auth.fid, platform)
        IN  IF stored = {}
            THEN res.policy = [daily_minutes |-> 45, bedtime |-> "21:00",
                               whitelist |-> <<>>]
            ELSE \A r \in stored :
                   res.policy = [daily_minutes |-> r.daily_minutes,
                                 bedtime |-> r.bedtime,
                                 whitelist |-> r.whitelist.json]

\* a POST /rules body lacks the platform or the bedtime, or its daily_minutes
\* is missing, zero or negative
BadRuleBody(body) ==
    \/ "platform" \notin DOMAIN body
    \/ "bedtime" \notin DOMAIN body
    \/ "daily_minutes" \notin DOMAIN body
    \/ body.daily_minutes <= 0

\* C8: an authenticated POST /rules whose body lacks the platform or the bedtime, or whose
\* daily_minutes is missing, zero or negative, is answered 400, and no rule
\* row has daily_minutes <= 0.
C8_RuleBodyValidated ==
    /\ (Answered("POST /rules") /\ LiveToken(req.auth) /\ BadRuleBody(req.body))
          => res.status = 400
    /\ \A r \in rules : r.daily_minutes > 0

\* two e-mail addresses are equal up to letter case
SameIgnoringCase(e1, e2) ==
    \/ e1 = e2
    \/ {e1, e2} = {"a@x.com", "A@X.com"}

\* a step that handles a request of the route op
Handles(op) == req = NoRequest /\ req'.op = op

\* the families registered under the e-mail of a login body, up to case
Registered(body) ==
    {f \in families :
        "email" \in DOMAIN body /\ SameIgnoringCase(f.email, body.email)}

\* those of them whose password is the one of the body
Credentials(body) ==
    {f \in Registered(body) : f.password_hash = <<"bcrypt", body.password>>}

C6_State ==
    Answered("POST /auth/login") =>
        /\ Registered(req.body) = {} =>
              res = [status |-> 401, error |-> "invalid credentials"]
        /\ "password" \in DOMAIN req.body =>
              IF Credentials(req.body) # {}
              THEN /\ res.status = 200
                   /\ \E f \in Credentials(req.body) :
                         res.token = [fid |-> f.id, email |-> f.email]
              ELSE res = [status |-> 401, error |-> "invalid credentials"]

C6_Step ==
    Handles("POST /auth/login") =>
        /\ UNCHANGED <<families, children, rules, usage_events, ids>>
        /\ res'.status # 200 => issued' = issued

C5_State ==
    /\ \A f1 \in families, f2 \in families :
          SameIgnoringCase(f1.email, f2.email) => f1 = f2
    /\ (Answered("POST /auth/register") /\ res.status = 200) =>
          \E f \in families :
              /\ f.id = res.token.fid
              /\ SameIgnoringCase(f.email, req.body.email)

C5_Step ==
    (/\ Handles("POST /auth/register")
     /\ "email" \in DOMAIN req'.body
     /\ \E f \in families : SameIgnoringCase(f.email, req'.body.email))
    => /\ res'.status = 400
       /\ "token" \notin DOMAIN res'
       /\ "password" \in DOMAIN req'.body => res'.error = "email exists?"
       /\ families' = families

\* C5: no two family rows have e-mails that are equal ignoring case; a
\* register that succeeds answers with the token of the row it inserted; a
\* register whose e-mail equals, up to letter case, that of a family row is
\* answered 400 (the conflict error when it has a password) without a token
\* and leaves the families table unchanged.
C5_UniqueEmail == []C5_State /\ [][C5_Step]_vars

\* a second registration, with the first one's e-mail in another case, fails
C5_Witness ==
    /\ Answered("POST /auth/register")
    /\ req.body = [email |-> "A@X.com", password |-> "pw123"]
    /\ res = [status |-> 400, error |-> "email exists?"]
    /\ \E f \in families : f.email = "a@x.com"

C7_State ==
    /\ (req.op \in Protected /\ res # NoResponse) =>
          IF LiveToken(req.auth)
          THEN res.status # 401
          ELSE /\ res.status = 401
               /\ res.error \in {"missing token", "invalid token"}
    /\ \A p \in inflight : LiveToken(p.request.auth)

C7_Step ==
    (/\ req = NoRequest
     /\ req'.op \in Protected
     /\ ~LiveToken(req'.auth))
    => UNCHANGED <<families, children, rules, usage_events, ids, issued,
                   inflight>>

\* C7: a request to a protected route without a token, or with a token that
\* is forged or expired, is answered 401 and leaves every table unchanged; a
\* request to a protected route gets another answer than 401, or is between
\* two statements of its handler, only with a token that register or login
\* signed and that has not expired.
C7_RequireAuth == []C7_State /\ [][C7_Step]_vars

\* an expired token of a family that has rules is turned away
C7_Witness ==
    /\ req.op \in Protected
    /\ req.auth.kind = "jwt"
    /\ req.auth.signed
    /\ req.auth.expired
    /\ res = [status |-> 401, error |-> "invalid token"]
    /\ \E r \in rules : r.family_id = req.auth.fid

Changed(before, after) == (before \ after) \cup (after \ before)

C10_State ==
    /\ (Answered("GET /children") /\ res.status = 200) =>
          \A i \in DOMAIN res.rows :
              \E c \in children :
                  /\ c.family_id = req.auth.fid
                  /\ c.id = res.rows[i].id
                  /\ c.name = res.rows[i].name
    /\ (Answered("GET /rules") /\ res.status = 200) =>
          \A row \in res.rows :
              \E r \in rules : r.family_id = req.auth.fid /\ r.id = row.id
    /\ (Answered("GET /policy") /\ res.status = 200) =>
          LET own == {r \in rules : r.family_id = req.auth.fid} IN
          \/ res.policy = [daily_minutes |-> 45, bedtime |-> "21:00",
                           whitelist |-> <<>>]
          \/ \E r \in own :
                res.policy = [daily_minutes |-> r.daily_minutes,
                              bedtime |-> r.bedtime,
                              whitelist |-> r.whitelist.json]

C10_Step ==
    LET changed == Changed(children, children') \cup Changed(rules, rules')
                   \cup Changed(usage_events, usage_events')
    IN  /\ (req = NoRequest /\ req'.op \in Protected /\ LiveToken(req'.auth))
              => /\ families' = families
                 /\ \A row \in changed : row.family_id = req'.auth.fid
        /\ \A p \in inflight' \ inflight :
              /\ families' = families
              /\ \A row \in changed : row.family_id = p.request.auth.fid

\* C10: a request with the token of family F, in the step that answers it and
\* in the step that takes it in flight, inserts, changes or removes only rows
\* whose family_id is F, and GET /children, GET /rules and GET /policy
\* answer only with rows whose family_id is F (or with the default policy).
C10_TenantIsolation == []C10_State /\ [][C10_Step]_vars

\* a family lists its rules while another family has rules too
C10_Witness ==
    /\ Answered("GET /rules")
    /\ res.status = 200
    /\ res.rows # {}
    /\ \E r \in rules : r.family_id # req.auth.fid

\* the usage event of the next state that has the id of e
After(e) == {e2 \in usage_events' : e2.id = e.id}

\* C3 as stated: deleting a family row removes every child and every rule of
\* the family but no usage event: every usage event is still there afterwards
\* and has no child reference.
C3_DeleteKeepsEvents ==
    [][Handles("DELETE families") =>
          /\ \A c \in children' : c.family_id # req'.id
          /\ \A r \in rules' : r.family_id # req'.id
          /\ \A e \in usage_events :
                \E e2 \in After(e) : "child_id" \notin DOMAIN e2]_vars

C3_Step ==
    Handles("DELETE families") =>
        LET fid == req'.id
            gone == {c.id : c \in {c \in children : c.family_id = fid}}
        IN  /\ families' = {f \in families : f.id # fid}
            /\ children' = {c \in children : c.family_id # fid}
            /\ rules' = {r \in rules : r.family_id # fid}
            /\ \A e2 \in usage_events' :
                  /\ e2.family_id # fid
                  /\ \E e \in usage_events : e2 \in After(e)
            /\ \A e \in usage_events :
                  IF e.family_id = fid
                  THEN After(e) = {}
                  ELSE IF "child_id" \in DOMAIN e /\ e.child_id \in gone
                  THEN After(e) = {[f \in DOMAIN e \ {"child_id"} |-> e[f]]}
                  ELSE After(e) = {e}

\* C3, amended: deleting a family row removes every child, every rule and
\* every usage event of the family and no row of another family; a usage event
\* of another family that referred to a child of the deleted family is still
\* there, with its child reference set to null and nothing else changed.
C3_DeleteCascades == [][C3_Step]_vars

\* after the deletion of a family, a usage event of another family is left
\* whose child reference was nulled
C3_Witness ==
    /\ req.op = "DELETE families"
    /\ \E e \in usage_events : e.kind = "stop" /\ "child_id" \notin DOMAIN e

====
